---- MODULE Spec2Model ----
(***************************************************************************)
(* Model of the AAMS local bridge scripts.                                 *)
(*                                                                         *)
(* robot_simulator.py (the Workflow Stage Engine) reads one JSON payload   *)
(* from standard input, resolves the mode, walks the stage list of that    *)
(* mode (and the vision checks in return mode), writes one JSON line per   *)
(* step to standard output and ends with one "complete" line.              *)
(*                                                                         *)
(* The Korean string literals of the source (stage labels, messages, the   *)
(* localized mode synonym) are written here as ASCII glosses, because the  *)
(* TLA+ lexer accepts ASCII only; each gloss stands for one literal.       *)
(***************************************************************************)
EXTENDS Integers, Sequences, FiniteSets, TLC

(***************************************************************************)
(* Bounds of the model.                                                    *)
(***************************************************************************)
\* How many times the invoking process runs the engine on the same request.
MaxRuns == 2
\* A delay range [lo, hi] is sampled at lo + k*(hi-lo)/DelayGrid, k = 0..DelayGrid.
DelayGrid == 1

(***************************************************************************)
(* JSON values as Python sees them after json.loads.                       *)
(***************************************************************************)
None == [t |-> "null"]
JStr(s) == [t |-> "str", s |-> s]
\* A JSON array of n elements (the elements are never read by the program).
JList(n) == [t |-> "list", n |-> n]
\* A JSON object: f maps the keys that are present to their values.
JObj(f) == [t |-> "obj", f |-> f]
\* True / False, and a number (the floats of the program are whole here).
JBool(b) == [t |-> "bool", b |-> b]
JNum(n) == [t |-> "num", n |-> n]
EmptyDict == JObj(<<>>)

\* isinstance(v, dict): only a dict has the .get method the program calls.
IsDict(v) == v.t = "obj"

\* bool(v)
Truthy(v) ==
    CASE v.t = "null" -> FALSE
      [] v.t = "str"  -> v.s # ""
      [] v.t = "list" -> v.n > 0
      [] v.t = "obj"  -> DOMAIN v.f # {}
      [] v.t = "bool" -> v.b
      [] v.t = "num"  -> v.n # 0

\* a or b
Or(a, b) == IF Truthy(a) THEN a ELSE b

\* d.get(k)
Get(d, k) == IF k \in DOMAIN d.f THEN d.f[k] ELSE None

\* d.get(k, default)
GetDefault(d, k, default) == IF k \in DOMAIN d.f THEN d.f[k] ELSE default

\* v == s, for a str literal s
EqStr(v, s) == v.t = "str" /\ v.s = s

\* v in {...}, a set of str literals; hashing a list raises TypeError
Hashable(v) == v.t # "list" /\ v.t # "obj"
InStrSet(v, S) == v.t = "str" /\ v.s \in S

\* str(v) and f"{v}"
PyStr(v) ==
    CASE v.t = "str"  -> v.s
      [] v.t = "null" -> "None"
      [] v.t = "list" -> "[...]"
      [] v.t = "obj"  -> "{...}"

\* s.lower(), on the strings of the model
Lower(s) ==
    CASE s = "ISSUE" -> "issue"
      [] OTHER -> s

(***************************************************************************)
(* The stage tables.                                                       *)
(***************************************************************************)
STAGES_RETURN ==
    << <<"prepare", "return: preparing">>,
       <<"verify", "return: visual inspection of the item">>,
       <<"stow", "moving to the storage area">>,
       <<"complete", "storage complete">> >>

STAGES_DISPATCH ==
    << <<"prepare", "dispatch: preparing">>,
       <<"pick", "picking the requested equipment">>,
       <<"verify", "visual inspection before release">>,
       <<"handover", "handing over to the user">> >>

\* A variant of the table with the first two checks in the other order.
VISION_CHECKS_Swapped ==
    << <<"selector", "checking the selector position">>,
       <<"magazine_top", "checking the top round of the magazine">>,
       <<"serial", "checking the firearm QR code">> >>

VISION_CHECKS ==
    << <<"magazine_top", "checking the top round of the magazine">>,
       <<"selector", "checking the selector position">>,
       <<"serial", "checking the firearm QR code">> >>

\* f"{label} 실패"
FailSuffix == " failed"

(***************************************************************************)
(* The inputs: what the invoking process writes to standard input and the  *)
(* --seed option it passes.                                                *)
(***************************************************************************)
\* A key that the JSON object does not hold.
Absent == [t |-> "absent"]
MkObj(r) == JObj([k \in {x \in DOMAIN r : r[x].t # "absent"} |-> r[k]])

StageKeys ==
    {STAGES_RETURN[n][1] : n \in DOMAIN STAGES_RETURN}
        \cup {STAGES_DISPATCH[n][1] : n \in DOMAIN STAGES_DISPATCH}
CheckKeys == {VISION_CHECKS[n][1] : n \in DOMAIN VISION_CHECKS}

ModeVals ==
    {Absent} \cup {JStr(s) : s \in {"issue", "dispatch", "return", "out",
                                    "bulchul", "ISSUE", "bogus"}}
TypeVals == {Absent, JStr("DISPATCH"), JStr("ISSUE"), JStr("dispatch"), JList(1)}
FailStageVals == {Absent} \cup {JStr(s) : s \in StageKeys \cup CheckKeys \cup {"nope"}}
ReasonVals == {Absent, JStr("jam"), JStr("")}
\* A reason is given with some of the fail stages only, to keep the set small.
ReasonedFailStageVals ==
    {Absent} \cup {JStr(s) : s \in {"prepare", "pick", "stow", "serial"}}
SimulateVals ==
    {Absent, JStr("x"), JList(0)}
        \cup {MkObj([fail_stage |-> fs, reason |-> Absent]) : fs \in FailStageVals}
        \cup {MkObj([fail_stage |-> fs, reason |-> rs]) :
                 fs \in ReasonedFailStageVals, rs \in ReasonVals}
DispatchVals == {Absent, None, MkObj([includes |-> JStr("rifle")])}
\* <<requestId, request_id>>
RequestIdVals ==
    { <<Absent, Absent>>, <<JStr("R1"), JStr("R2")>>, <<JStr(""), Absent>> }

\* The request ids and the dispatch field are read at lines 91 and 133 only,
\* whatever the rest of the request: they vary with the mode over a few
\* requests, and mode, type and simulate vary in full without them.
PlainTypeVals == {Absent, JStr("DISPATCH")}
PlainSimulateVals == {Absent, MkObj([fail_stage |-> JStr("prepare")])}
Requests ==
    {MkObj([requestId |-> Absent, request_id |-> Absent, mode |-> m, type |-> ty,
            simulate |-> sim, dispatch |-> Absent]) :
        m \in ModeVals, ty \in TypeVals, sim \in SimulateVals}
    \cup
    {MkObj([requestId |-> ids[1], request_id |-> ids[2], mode |-> m, type |-> ty,
            simulate |-> sim, dispatch |-> d]) :
        ids \in RequestIdVals, m \in ModeVals, ty \in PlainTypeVals,
        sim \in PlainSimulateVals, d \in DispatchVals}

\* Standard input: nothing, text that is not JSON, or the text of a JSON value.
StdinVals ==
    {[k |-> "empty"], [k |-> "invalid", err |-> "Expecting value"]}
        \cup {[k |-> "json", v |-> v] : v \in Requests \cup {JList(1), JStr("abc"), None}}

\* --seed: absent (default None), or an integer.
NoSeed == -1
SeedVals == {NoSeed, 0, 1}

(***************************************************************************)
(* The state.                                                              *)
(***************************************************************************)
VARIABLES
    stdin,          \* the text the invoker supplies, read once per run
    pc,             \* where main() is
    rng,            \* state of the module-global random generator
    slept,          \* the last delay drawn by simulate_delay, in ms
    payload,        \* main: payload
    request_id,     \* main: request_id
    mode,           \* main: mode (after line 95)
    simulate_cfg,   \* main: simulate_cfg
    stages,         \* main: stages
    idx,            \* position in the running for loop (1-based)
    exc,            \* the message of the RuntimeError being propagated
    out,            \* the lines written to standard output, as JSON objects
    exitCode,       \* the process exit status, -1 while running
    uncaught,       \* the exception type that left main(), "" if none
    run,            \* which invocation on this request this is
    prevOut,        \* standard output of the previous invocation
    prevExit,       \* exit status of the previous invocation
    prevSlept       \* the last delay of the previous invocation

locals == <<payload, request_id, mode, simulate_cfg, stages, idx, exc>>
history == <<run, prevOut, prevExit, prevSlept>>

Running == -1

(***************************************************************************)
(* The state of rail_control.py (the Motion Command Executor), a separate  *)
(* process with its own standard output.                                   *)
(***************************************************************************)
VARIABLES
    rpc,            \* where rail_control.py is
    args,           \* the parsed command line: action, host, position, speed
    client,         \* the bridge session: "none", "constructed", "entered", "closed"
    calls,          \* the calls made on the bridge so far, in order, each with
                    \* its outcome: the value returned, or that it raised
    pending,        \* str(exc) of the exception being propagated, "" if none
    result,         \* ensure_position / ensure_home: result
    response,       \* main: response
    rpayload,       \* main: payload
    rout,           \* the lines printed on standard output, as JSON objects
    rexit,          \* the process exit status, -1 while running
    closeRaised     \* whether client.__exit__ raised

railVars == <<rpc, args, client, calls, pending, result, response, rpayload, rout,
              rexit, closeRaised>>

engineVars == <<stdin, pc, rng, slept, payload, request_id, mode, simulate_cfg, stages,
                idx, exc, out, exitCode, uncaught, run, prevOut, prevExit, prevSlept>>

vars == <<engineVars, railVars>>


(***************************************************************************)
(* Pure helpers of the engine.                                             *)
(***************************************************************************)
\* random.seed(seed): the generator state is a function of the seed alone.
SeedState(seed) == seed % (DelayGrid + 1)

\* random.uniform(min_ms, max_ms) from generator state g.
Uniform(g, min_ms, max_ms) == min_ms + ((max_ms - min_ms) * g) \div DelayGrid

\* The generator state after one draw.
NextRng(g) == (g + 1) % (DelayGrid + 1)

\* simulate_delay(min_ms, max_ms): draws the duration and sleeps; touches nothing else.
simulate_delay(min_ms, max_ms) ==
    /\ slept' = Uniform(rng, min_ms, max_ms)
    /\ rng' = NextRng(rng)

\* emit(event): one more line on standard output.
emit(lines, event) == Append(lines, JObj(event))

\* Line 92: str(payload.get("mode") or "").lower()
RawMode(p) == Lower(PyStr(Or(Get(p, "mode"), JStr(""))))

\* A variant of line 93 that forgets "return".
ModeRecognized_NoReturn(m) == m \in {"issue", "dispatch"}

\* Line 93: is the type field consulted?
ModeRecognized(m) == m \in {"issue", "dispatch", "return"}

\* A variant of line 94 that compares the type without regard to case.
ModeFromType_IgnoreCase(ty) ==
    IF InStrSet(ty, {"DISPATCH", "ISSUE", "dispatch", "issue"}) THEN "issue" ELSE "return"

\* Line 94: the mode derived from the type field.
ModeFromType(ty) == IF InStrSet(ty, {"DISPATCH", "ISSUE"}) THEN "issue" ELSE "return"

\* Line 95: the two buckets.
Bucket(m) == IF m \in {"issue", "dispatch", "out", "bulchul"} THEN "dispatch" ELSE "return"

\* Lines 92-95 on a mode value and a type value.
NormalizeMode(m, ty) ==
    LET m1 == Lower(PyStr(Or(m, JStr(""))))
        m2 == IF ModeRecognized(m1) THEN m1 ELSE ModeFromType(ty)
    IN  Bucket(m2)

\* Line 94 raises TypeError when it hashes an unhashable type value.
NormalizeRaises(p) == ~ModeRecognized(RawMode(p)) /\ ~Hashable(Get(p, "type"))

\* A variant of line 98 with the two lists exchanged.
StagesFor_Swapped(m) == IF m = "dispatch" THEN STAGES_RETURN ELSE STAGES_DISPATCH

\* Line 98.
StagesFor(m) == IF m = "dispatch" THEN STAGES_DISPATCH ELSE STAGES_RETURN

\* A variant of lines 112 and 78 in which a long delay also counts as a failure.
FailsAt_OrSlow(cfg, key) == EqStr(Get(cfg, "fail_stage"), key) \/ slept' >= 650

\* Lines 112 and 78: simulate.get("fail_stage") == key
FailsAt(cfg, key) == EqStr(Get(cfg, "fail_stage"), key)

\* A variant of lines 113 and 79 whose default message is the bare label.
FailMessage_NoSuffix(cfg, label) == PyStr(Or(Get(cfg, "reason"), JStr(label)))

\* Lines 113 and 79: simulate.get("reason") or f"{label} 실패"
FailMessage(cfg, label) == PyStr(Or(Get(cfg, "reason"), JStr(label \o FailSuffix)))

\* A variant of lines 60-64 that tags the event with the fallback stage name.
PayloadErrorEvent_Unknown(err) ==
    [event |-> JStr("complete"), status |-> JStr("error"), stage |-> JStr("unknown"),
     message |-> JStr("invalid JSON input: " \o err)]

\* Lines 60-64.
PayloadErrorEvent(err) ==
    [event |-> JStr("complete"), status |-> JStr("error"), stage |-> JStr("payload"),
     message |-> JStr("invalid JSON input: " \o err)]

\* Lines 100-105.
StartingEvent(rid, m) ==
    [event |-> JStr("progress"), stage |-> JStr("starting"),
     message |-> JStr("request " \o PyStr(Or(rid, JStr("-"))) \o " preparing equipment command"),
     mode |-> JStr(m)]

\* Line 110.
StageEvent(stage, label, m) ==
    [event |-> JStr("progress"), stage |-> JStr(stage), message |-> JStr(label),
     mode |-> JStr(m)]

\* Line 76.
CheckEvent(key, label) ==
    [event |-> JStr("progress"), stage |-> JStr(key), message |-> JStr(label)]

\* A variant of lines 116-122 that always reports the fallback stage name.
ErrorEvent_Unknown(cfg, msg, m) ==
    [event |-> JStr("complete"), status |-> JStr("error"), stage |-> JStr("unknown"),
     message |-> JStr(msg), mode |-> JStr(m)]

\* Lines 116-122.
ErrorEvent(cfg, msg, m) ==
    [event |-> JStr("complete"), status |-> JStr("error"),
     stage |-> Or(Get(cfg, "fail_stage"), JStr("unknown")),
     message |-> JStr(msg), mode |-> JStr(m)]

\* Lines 125-135.
SuccessEvent(rid, p, m) ==
    [event |-> JStr("complete"), status |-> JStr("success"), stage |-> JStr("complete"),
     message |-> JStr("equipment operation simulation complete"), mode |-> JStr(m),
     summary |-> JObj([requestId |-> rid,
                       includes |-> Get(GetDefault(p, "dispatch", EmptyDict), "includes")])]

(***************************************************************************)
(* The initial state: the process has started, nothing has run.            *)
(***************************************************************************)
InitLocals ==
    /\ payload = None
    /\ request_id = None
    /\ mode = ""
    /\ simulate_cfg = None
    /\ stages = <<>>
    /\ idx = 0
    /\ exc = ""

\* The executor process is not running.
RailOff ==
    /\ rpc = "off"
    /\ args = [action |-> "home", host |-> "127.0.0.1", position |-> 800, speed |-> 200]
    /\ client = "none"
    /\ calls = <<>>
    /\ pending = ""
    /\ result = None
    /\ response = None
    /\ rpayload = None
    /\ rout = <<>>
    /\ rexit = Running
    /\ closeRaised = FALSE

Init ==
    /\ stdin \in StdinVals
    /\ pc = "main"
    /\ rng \in 0..DelayGrid
    /\ slept = 0
    /\ InitLocals
    /\ out = <<>>
    /\ exitCode = Running
    /\ uncaught = ""
    /\ run = 1
    /\ prevOut = <<>>
    /\ prevExit = Running
    /\ prevSlept = 0
    /\ RailOff

\* An exception leaves main(): the interpreter prints the traceback on standard
\* error (not on standard output) and the process ends with status 1.
Crash(type) ==
    /\ pc' = "exit"
    /\ exitCode' = 1
    /\ uncaught' = type

(***************************************************************************)
(* The steps of main().                                                    *)
(***************************************************************************)
\* Lines 83-88: parse --seed and seed the generator when it is given.
ParseArgs ==
    /\ pc = "main"
    /\ \E seed \in SeedVals :
          rng' = IF seed # NoSeed THEN SeedState(seed) ELSE rng
    /\ pc' = "load"
    /\ UNCHANGED <<stdin, slept, locals, out, exitCode, uncaught, history>>
    /\ UNCHANGED railVars

\* Line 90, load_payload (lines 53-65).
LoadPayload ==
    /\ pc = "load"
    /\ \/ /\ stdin.k = "empty"
          /\ payload' = EmptyDict
          /\ pc' = "resolve"
          /\ UNCHANGED <<out, exitCode>>
       \/ /\ stdin.k = "json"
          /\ payload' = stdin.v
          /\ pc' = "resolve"
          /\ UNCHANGED <<out, exitCode>>
       \/ /\ stdin.k = "invalid"
          /\ out' = emit(out, PayloadErrorEvent(stdin.err))
          /\ exitCode' = 1
          /\ pc' = "exit"
          /\ UNCHANGED payload
    /\ UNCHANGED <<stdin, rng, slept, request_id, mode, simulate_cfg, stages, idx, exc,
                   uncaught, history>>
    /\ UNCHANGED railVars

\* Lines 91-98: request id, mode, simulate config, stage list.
ResolveRequest ==
    /\ pc = "resolve"
    /\ IF ~IsDict(payload)
       THEN /\ Crash("AttributeError")
            /\ UNCHANGED <<request_id, mode, simulate_cfg, stages, idx>>
       ELSE /\ request_id' = Or(Get(payload, "requestId"), Get(payload, "request_id"))
            /\ IF NormalizeRaises(payload)
               THEN /\ Crash("TypeError")
                    /\ UNCHANGED <<mode, simulate_cfg, stages, idx>>
               ELSE /\ mode' = NormalizeMode(Get(payload, "mode"), Get(payload, "type"))
                    /\ simulate_cfg' = Or(Get(payload, "simulate"), EmptyDict)
                    /\ stages' = StagesFor(mode')
                    /\ idx' = 1
                    /\ pc' = "starting"
                    /\ UNCHANGED <<exitCode, uncaught>>
    /\ UNCHANGED <<stdin, rng, slept, payload, exc, out, history>>
    /\ UNCHANGED railVars

\* Lines 100-106.
EmitStarting ==
    /\ pc = "starting"
    /\ out' = emit(out, StartingEvent(request_id, mode))
    /\ simulate_delay(200, 500)
    /\ pc' = "stages"
    /\ UNCHANGED <<stdin, locals, exitCode, uncaught, history>>
    /\ UNCHANGED railVars

\* Lines 109-113: one iteration of the stage loop.
StageStep ==
    /\ pc = "stages"
    /\ idx <= Len(stages)
    /\ LET stage == stages[idx][1]
           label == stages[idx][2]
       IN  /\ out' = emit(out, StageEvent(stage, label, mode))
           /\ simulate_delay(400, 900)
           /\ IF ~IsDict(simulate_cfg)
              THEN /\ Crash("AttributeError")
                   /\ UNCHANGED <<idx, exc>>
              ELSE IF FailsAt(simulate_cfg, stage)
              THEN /\ exc' = FailMessage(simulate_cfg, label)
                   /\ pc' = "except"
                   /\ UNCHANGED <<idx, exitCode, uncaught>>
              ELSE /\ IF idx = Len(stages)
                      THEN pc' = "checks" /\ idx' = 1
                      ELSE pc' = "stages" /\ idx' = idx + 1
                   /\ UNCHANGED <<exc, exitCode, uncaught>>
    /\ UNCHANGED <<stdin, payload, request_id, mode, simulate_cfg, stages, history>>
    /\ UNCHANGED railVars

\* Lines 114, 73-74: run_checks returns at once unless the mode is return.
SkipChecks ==
    /\ pc = "checks"
    /\ mode # "return"
    /\ pc' = "success"
    /\ UNCHANGED <<stdin, rng, slept, locals, out, exitCode, uncaught, history>>
    /\ UNCHANGED railVars

\* Lines 75-79: one iteration of the vision-check loop.
CheckStep ==
    /\ pc = "checks"
    /\ mode = "return"
    /\ idx <= Len(VISION_CHECKS)
    /\ LET key == VISION_CHECKS[idx][1]
           label == VISION_CHECKS[idx][2]
       IN  /\ out' = emit(out, CheckEvent(key, label))
           /\ simulate_delay(250, 650)
           /\ IF FailsAt(simulate_cfg, key)
              THEN /\ exc' = FailMessage(simulate_cfg, label)
                   /\ pc' = "except"
                   /\ UNCHANGED idx
              ELSE /\ IF idx = Len(VISION_CHECKS)
                      THEN pc' = "success" /\ idx' = idx
                      ELSE pc' = "checks" /\ idx' = idx + 1
                   /\ UNCHANGED exc
    /\ UNCHANGED <<stdin, payload, request_id, mode, simulate_cfg, stages, exitCode,
                   uncaught, history>>
    /\ UNCHANGED railVars

\* Lines 115-123: the RuntimeError handler.
HandleRuntimeError ==
    /\ pc = "except"
    /\ out' = emit(out, ErrorEvent(simulate_cfg, exc, mode))
    /\ exitCode' = 2
    /\ pc' = "exit"
    /\ UNCHANGED <<stdin, rng, slept, locals, uncaught, history>>
    /\ UNCHANGED railVars

\* Lines 125-136: the success event; building it reads payload["dispatch"].
EmitSuccess ==
    /\ pc = "success"
    /\ IF ~IsDict(GetDefault(payload, "dispatch", EmptyDict))
       THEN /\ Crash("AttributeError")
            /\ UNCHANGED out
       ELSE /\ out' = emit(out, SuccessEvent(request_id, payload, mode))
            /\ exitCode' = 0
            /\ pc' = "exit"
            /\ UNCHANGED uncaught
    /\ UNCHANGED <<stdin, rng, slept, locals, history>>
    /\ UNCHANGED railVars

\* The invoking process starts the engine again on the same request: a fresh
\* process, with the generator in any state, reading the same standard input.
Rerun ==
    /\ pc = "exit"
    /\ run < MaxRuns
    /\ run' = run + 1
    /\ prevOut' = out
    /\ prevExit' = exitCode
    /\ prevSlept' = slept
    /\ pc' = "main"
    /\ rng' \in 0..DelayGrid
    /\ slept' = 0
    /\ payload' = None
    /\ request_id' = None
    /\ mode' = ""
    /\ simulate_cfg' = None
    /\ stages' = <<>>
    /\ idx' = 0
    /\ exc' = ""
    /\ out' = <<>>
    /\ exitCode' = Running
    /\ uncaught' = ""
    /\ UNCHANGED stdin
    /\ UNCHANGED railVars

Next ==
    \/ ParseArgs
    \/ LoadPayload
    \/ ResolveRequest
    \/ EmitStarting
    \/ StageStep
    \/ SkipChecks
    \/ CheckStep
    \/ HandleRuntimeError
    \/ EmitSuccess
    \/ Rerun

Spec == Init /\ [][Next]_vars

(***************************************************************************)
(* rail_control.py: the inputs.                                            *)
(***************************************************************************)
\* --action, --host, --position (default 800.0), --speed (default 200.0).
ArgsVals ==
    [action : {"extend", "home", "position"}, host : {"127.0.0.1"},
     position : {800, 100}, speed : {200}]

\* What rail_move_to / rail_home may return: a non-dict, or a dict that may
\* hold ok, position and current_position.
CommandResults ==
    {None}
        \cup {MkObj([ok |-> o, position |-> p, current_position |-> c]) :
                 o \in {Absent, JBool(TRUE), JBool(FALSE)},
                 p \in {Absent, JNum(10)},
                 c \in {Absent, JNum(30)}}

\* What rail_status may return: a non-dict, or a dict with or without position.
StatusResults ==
    {None, EmptyDict, MkObj([current_position |-> JNum(31)]),
     MkObj([position |-> JNum(20), current_position |-> JNum(31)])}

(***************************************************************************)
(* rail_control.py: pure helpers.                                          *)
(***************************************************************************)
\* dict.update(other)
Update(d, other) ==
    JObj([k \in DOMAIN d.f \cup DOMAIN other.f |->
             IF k \in DOMAIN other.f THEN other.f[k] ELSE d.f[k]])

\* A variant of setdefault that overwrites the key.
SetDefault_Overwrite(d, k, v) ==
    JObj([x \in DOMAIN d.f \cup {k} |-> IF x = k THEN v ELSE d.f[x]])

\* dict.setdefault(k, v)
SetDefault(d, k, v) ==
    IF k \in DOMAIN d.f THEN d
    ELSE JObj([x \in DOMAIN d.f \cup {k} |-> IF x = k THEN v ELSE d.f[x]])

\* Lines 11-14: the record printed when the import fails.
ImportErrorRecord(msg) ==
    [ok |-> JBool(FALSE), error |-> JStr("bridge_import_failed: " \o msg)]

\* A variant of line 59 that leaves the position out of the record.
InitialPayload_NoPosition(a) ==
    JObj([action |-> JStr(a.action), speed |-> JNum(a.speed)])

\* Line 59.
InitialPayload(a) ==
    JObj([action |-> JStr(a.action), position |-> JNum(a.position),
          speed |-> JNum(a.speed)])

\* Lines 33-34 and 43-44: a result that is not a dict becomes {"ok": True}.
AsResult(r) == IF IsDict(r) THEN r ELSE JObj([ok |-> JBool(TRUE)])

\* Lines 36-37 and 46-47.
MergeStatus(res, status) ==
    IF IsDict(status) /\ "position" \in DOMAIN status.f
    THEN SetDefault(res, "position", Get(status, "position"))
    ELSE res

\* A variant of lines 21-24 without the finally clause: a raise inside the
\* session goes straight to the caller.
AfterRaise_NoFinally == "handler"

\* Lines 21-24: a raise inside the session runs the finally clause first.
AfterRaise == "teardown"

\* A variant of lines 25-28 that lets the exception of __exit__ propagate.
AfterClose_Propagates(p, raised) == IF raised THEN "close failed" ELSE p

\* Lines 25-28: an exception of __exit__ is swallowed; the exception in flight
\* (if any) goes on.
AfterClose(p, raised) == p

\* Lines 67-70.
ErrorPayload(p, msg) == Update(p, JObj([ok |-> JBool(FALSE), error |-> JStr(msg)]))

\* Lines 74-77.
FinalPayload(p, resp) ==
    LET p1 == Update(p, Or(resp, EmptyDict))
        p2 == SetDefault(p1, "ok", JBool(TRUE))
    IN  IF Truthy(Get(p2, "current_position")) /\ "position" \notin DOMAIN p2.f
        THEN Update(p2, JObj([position |-> Get(p2, "current_position")]))
        ELSE p2

\* A variant of line 79 that always reports success.
ExitStatus_AlwaysZero(p) == 0

\* Line 79.
ExitStatus(p) == IF Truthy(GetDefault(p, "ok", JBool(TRUE))) THEN 0 ELSE 1

(***************************************************************************)
(* rail_control.py: the steps.                                             *)
(***************************************************************************)
\* One call on the bridge and its outcome.
Call(name, raised, ret) == [call |-> name, raised |-> raised, ret |-> ret]

\* The engine process is not running.
EngineOff ==
    /\ stdin = [k |-> "empty"]
    /\ pc = "off"
    /\ rng = 0
    /\ slept = 0
    /\ InitLocals
    /\ out = <<>>
    /\ exitCode = Running
    /\ uncaught = ""
    /\ run = 1
    /\ prevOut = <<>>
    /\ prevExit = Running
    /\ prevSlept = 0

RailInit ==
    /\ EngineOff
    /\ rpc = "import"
    /\ args \in ArgsVals
    /\ client = "none"
    /\ calls = <<>>
    /\ pending = ""
    /\ result = None
    /\ response = None
    /\ rpayload = None
    /\ rout = <<>>
    /\ rexit = Running
    /\ closeRaised = FALSE

\* Lines 8-15: the import of the bridge SDK, and the guard around it.
ImportBridge ==
    /\ rpc = "import"
    /\ \/ /\ rpc' = "main"
          /\ UNCHANGED <<rout, rexit>>
       \/ /\ rout' = Append(rout, JObj(ImportErrorRecord("No module named robot_sdk")))
          /\ rexit' = 1
          /\ rpc' = "exit"
    /\ UNCHANGED <<args, client, calls, pending, result, response, rpayload, closeRaised>>
    /\ UNCHANGED engineVars

\* Lines 52-59: the arguments are parsed and the record is initialised.
RailMain ==
    /\ rpc = "main"
    /\ rpayload' = InitialPayload(args)
    /\ rpc' = "open"
    /\ UNCHANGED <<args, client, calls, pending, result, response, rout, rexit, closeRaised>>
    /\ UNCHANGED engineVars

\* Lines 61 and 20: BridgeClient(host=host), outside the try of bridge().
OpenBridge ==
    /\ rpc = "open"
    /\ \/ /\ calls' = Append(calls, Call("BridgeClient", FALSE, None))
          /\ client' = "constructed"
          /\ rpc' = "enter"
          /\ UNCHANGED pending
       \/ /\ calls' = Append(calls, Call("BridgeClient", TRUE, None))
          /\ pending' = "connect failed"
          /\ rpc' = "handler"
          /\ UNCHANGED client
    /\ UNCHANGED <<args, result, response, rpayload, rout, rexit, closeRaised>>
    /\ UNCHANGED engineVars

\* Line 22: client.__enter__(), inside the try.
EnterSession ==
    /\ rpc = "enter"
    /\ \/ /\ calls' = Append(calls, Call("__enter__", FALSE, None))
          /\ client' = "entered"
          /\ rpc' = "command"
          /\ UNCHANGED pending
       \/ /\ calls' = Append(calls, Call("__enter__", TRUE, None))
          /\ pending' = "enter failed"
          /\ rpc' = AfterRaise
          /\ UNCHANGED client
    /\ UNCHANGED <<args, result, response, rpayload, rout, rexit, closeRaised>>
    /\ UNCHANGED engineVars

\* Lines 62-65 with 32-34 and 42-44: the primary command.
PrimaryCommand ==
    /\ rpc = "command"
    /\ LET name == IF args.action = "home" THEN "rail_home" ELSE "rail_move_to"
       IN  \/ /\ \E r \in CommandResults :
                    /\ calls' = Append(calls, Call(name, FALSE, r))
                    /\ result' = AsResult(r)
              /\ rpc' = "status"
              /\ UNCHANGED pending
           \/ /\ calls' = Append(calls, Call(name, TRUE, None))
              /\ pending' = "command failed"
              /\ rpc' = AfterRaise
              /\ UNCHANGED result
    /\ UNCHANGED <<args, client, response, rpayload, rout, rexit, closeRaised>>
    /\ UNCHANGED engineVars

\* Lines 35-38 and 45-48: the status query, the merge and the return.
QueryStatus ==
    /\ rpc = "status"
    /\ \/ /\ \E st \in StatusResults :
                /\ calls' = Append(calls, Call("rail_status", FALSE, st))
                /\ result' = MergeStatus(result, st)
          /\ response' = result'
          /\ rpc' = "teardown"
          /\ UNCHANGED pending
       \/ /\ calls' = Append(calls, Call("rail_status", TRUE, None))
          /\ pending' = "status failed"
          /\ rpc' = AfterRaise
          /\ UNCHANGED <<result, response>>
    /\ UNCHANGED <<args, client, rpayload, rout, rexit, closeRaised>>
    /\ UNCHANGED engineVars

\* Lines 24-28: the finally clause of bridge().
Teardown ==
    /\ rpc = "teardown"
    /\ client' = "closed"
    /\ \E raised \in BOOLEAN :
          /\ calls' = Append(calls, Call("__exit__", raised, None))
          /\ closeRaised' = raised
          /\ pending' = AfterClose(pending, raised)
    /\ rpc' = IF pending' # "" THEN "handler" ELSE "finish"
    /\ UNCHANGED <<args, result, response, rpayload, rout, rexit>>
    /\ UNCHANGED engineVars

\* Lines 66-72: the top-level handler.
HandleException ==
    /\ rpc = "handler"
    /\ rpayload' = ErrorPayload(rpayload, pending)
    /\ rout' = Append(rout, rpayload')
    /\ rexit' = 1
    /\ rpc' = "exit"
    /\ UNCHANGED <<args, client, calls, pending, result, response, closeRaised>>
    /\ UNCHANGED engineVars

\* Lines 74-79.
Finish ==
    /\ rpc = "finish"
    /\ rpayload' = FinalPayload(rpayload, response)
    /\ rout' = Append(rout, rpayload')
    /\ rexit' = ExitStatus(rpayload')
    /\ rpc' = "exit"
    /\ UNCHANGED <<args, client, calls, pending, result, response, closeRaised>>
    /\ UNCHANGED engineVars

RailNext ==
    \/ ImportBridge
    \/ RailMain
    \/ OpenBridge
    \/ EnterSession
    \/ PrimaryCommand
    \/ QueryStatus
    \/ Teardown
    \/ HandleException
    \/ Finish

RailSpec == RailInit /\ [][RailNext]_vars

(***************************************************************************)
(* Vocabulary of the properties.                                           *)
(***************************************************************************)
Exited == pc = "exit"
\* Lines 91-98 of this invocation have run: the mode is resolved.
Resolved == mode # ""

\* The request as the invoker wrote it (empty input stands for {}).
Request == IF stdin.k = "json" THEN stdin.v ELSE EmptyDict
ReqField(k) == IF IsDict(Request) THEN Get(Request, k) ELSE None
ReqFailStage ==
    IF IsDict(ReqField("simulate")) THEN Get(ReqField("simulate"), "fail_stage") ELSE None
FailStageIs(X) == EqStr(ReqFailStage, X)
\* The request names a mode that line 93 does not recognize, or none.
ReqModeUnrecognized ==
    /\ ReqField("mode").t \in {"null", "str"}
    /\ ReqField("mode").t = "str" =>
           Lower(ReqField("mode").s) \notin {"issue", "dispatch", "return"}

IsComplete(e) == EqStr(Get(e, "event"), "complete")
IsProgress(e) == EqStr(Get(e, "event"), "progress")
HasStage(e, k) == EqStr(Get(e, "stage"), k)
IsTerminal(e, status, stage) ==
    IsComplete(e) /\ EqStr(Get(e, "status"), status) /\ HasStage(e, stage)
IsCheckEvent(e) ==
    IsProgress(e) /\ \E k \in {"magazine_top", "selector", "serial"} : HasStage(e, k)
IsStageEvent(e) == IsProgress(e) /\ ~IsCheckEvent(e) /\ ~HasStage(e, "starting")
EndsWith(status, stage) == Len(out) > 0 /\ IsTerminal(out[Len(out)], status, stage)

\* The keys of the active sequence of mode m: its stages, then (return only) the checks.
ActiveKeys(m) ==
    [n \in DOMAIN StagesFor(m) |-> StagesFor(m)[n][1]]
        \o (IF m = "return" THEN [n \in DOMAIN VISION_CHECKS |-> VISION_CHECKS[n][1]]
            ELSE <<>>)
InActive(k, m) == \E n \in DOMAIN ActiveKeys(m) : ActiveKeys(m)[n] = k
Pos(k, m) == CHOOSE n \in DOMAIN ActiveKeys(m) : ActiveKeys(m)[n] = k
\* No progress event of an item that comes after X in the active sequence.
NothingAfter(X) ==
    \A n \in DOMAIN out :
        IsStageEvent(out[n]) \/ IsCheckEvent(out[n]) =>
            /\ InActive(Get(out[n], "stage").s, mode)
            /\ Pos(Get(out[n], "stage").s, mode) <= Pos(X, mode)
NoFailureInjected == \A X \in StageKeys \cup CheckKeys : ~(FailStageIs(X) /\ InActive(X, mode))

(***************************************************************************)
(* C1                                                                      *)
(***************************************************************************)
\* C1: every run emits exactly one event with event="complete", it is the last
\* line, and every progress event precedes it: no line ever follows a complete
\* event, and a run that has ended has emitted one.
C1_ExactlyOneCompleteLast ==
    /\ \A n \in DOMAIN out : IsComplete(out[n]) => n = Len(out)
    /\ Exited => Cardinality({n \in DOMAIN out : IsComplete(out[n])}) = 1

(***************************************************************************)
(* C2                                                                      *)
(***************************************************************************)
\* C2 as stated: when simulate.fail_stage is X, the key of any real stage or
\* vision check, the run ends with the terminal event status="error", stage=X,
\* and no progress event of an item after X is emitted.  (Stated for the runs
\* that end without an uncaught exception, which already refute it.)
C2_AnyRealKeyFails ==
    \A X \in StageKeys \cup CheckKeys :
        (Resolved /\ FailStageIs(X)) =>
            /\ InActive(X, mode) => NothingAfter(X)
            /\ (Exited /\ uncaught = "") => EndsWith("error", X)

\* C2 amended: when simulate.fail_stage is X and X is a key of the active
\* sequence of the resolved mode, the run ends with the terminal event
\* status="error", stage=X, and no progress event of an item after X is ever
\* emitted.
C2_ActiveKeyFails ==
    \A X \in StageKeys \cup CheckKeys :
        (Resolved /\ FailStageIs(X) /\ InActive(X, mode)) =>
            /\ NothingAfter(X)
            /\ Exited => EndsWith("error", X)

C2_Witness ==
    /\ Exited
    /\ mode = "return"
    /\ FailStageIs("selector")
    /\ Len(out) = 8
    /\ HasStage(out[7], "selector")

(***************************************************************************)
(* C3                                                                      *)
(***************************************************************************)
\* C3: when simulate.fail_stage is set to a key that is not in the active
\* sequence, the run ends with the terminal event status="error",
\* stage="unknown", not with a success event.  (Stated for the runs that end
\* without an uncaught exception, which already refute it.)
C3_UnknownKeyReported ==
    (/\ Resolved
     /\ Exited
     /\ uncaught = ""
     /\ ReqFailStage.t = "str"
     /\ ~InActive(ReqFailStage.s, mode)) => EndsWith("error", "unknown")

(***************************************************************************)
(* C4                                                                      *)
(***************************************************************************)
\* C4: a dispatch run never emits a vision-check event; in a return run with no
\* injected failure the vision-check events come in the order magazine_top,
\* selector, serial, each after all four stage events, and the terminal event
\* comes only after all three.
C4_VisionChecksReturnOnly ==
    /\ (Resolved /\ mode = "dispatch") => \A n \in DOMAIN out : ~IsCheckEvent(out[n])
    /\ (Resolved /\ mode = "return" /\ NoFailureInjected) =>
          LET checks == SelectSeq(out, IsCheckEvent)
              order == <<"magazine_top", "selector", "serial">>
          IN  /\ Len(checks) <= 3
              /\ \A n \in DOMAIN checks : HasStage(checks[n], order[n])
              /\ \A n \in DOMAIN out :
                    IsCheckEvent(out[n]) =>
                        /\ Cardinality({k \in 1..n : IsStageEvent(out[k])}) = 4
                        /\ \A k \in DOMAIN out : IsStageEvent(out[k]) => k < n
              /\ \A n \in DOMAIN out :
                    IsComplete(out[n]) =>
                        /\ Len(checks) = 3
                        /\ \A k \in DOMAIN out : IsCheckEvent(out[k]) => k < n

C4_Witness ==
    /\ Exited
    /\ mode = "return"
    /\ NoFailureInjected
    /\ Len(out) = 9
    /\ HasStage(out[6], "magazine_top")
    /\ HasStage(out[8], "serial")
    /\ EndsWith("success", "complete")

(***************************************************************************)
(* C5                                                                      *)
(***************************************************************************)
\* C5: when standard input is not parseable JSON, no progress event is ever
\* emitted, and the run ends with exactly one line, the terminal event
\* status="error", stage="payload", and exit status 1.
C5_UnparseableInput ==
    stdin.k = "invalid" =>
        /\ \A n \in DOMAIN out : ~IsProgress(out[n])
        /\ Len(out) <= 1
        /\ Exited => (Len(out) = 1 /\ EndsWith("error", "payload") /\ exitCode = 1)

C5_Witness == stdin.k = "invalid" /\ Exited /\ Len(out) = 1

(***************************************************************************)
(* C6                                                                      *)
(***************************************************************************)
\* C6: whatever the input, no exception leaves main(): the process never exits
\* without a well-formed final record as the last line of its output.
C6_FinalRecordAlways ==
    Exited => (uncaught = "" /\ Len(out) > 0 /\ IsComplete(out[Len(out)]))

(***************************************************************************)
(* C7                                                                      *)
(***************************************************************************)
\* C7: the exit status is 0 exactly when the terminal event reports success, 2
\* exactly when it reports a workflow failure, and 1 exactly when the input was
\* unparseable (the terminal event tagged "payload").
C7_ExitCodeAgrees ==
    Exited =>
        /\ exitCode = 0 <=> EndsWith("success", "complete")
        /\ exitCode = 2 <=>
              (/\ Len(out) > 0
               /\ IsComplete(out[Len(out)])
               /\ EqStr(Get(out[Len(out)], "status"), "error")
               /\ ~HasStage(out[Len(out)], "payload"))
        /\ exitCode = 1 <=> (stdin.k = "invalid" /\ EndsWith("error", "payload"))

(***************************************************************************)
(* C8                                                                      *)
(***************************************************************************)
\* C8 as stated: a request whose mode is absent or an unrecognized string
\* resolves to return.
C8_UnrecognizedIsReturn == (Resolved /\ ReqModeUnrecognized) => mode = "return"

\* C8 amended: a request whose mode is absent or an unrecognized string, and
\* whose type is absent or a string other than "DISPATCH" and "ISSUE", resolves
\* to return (with type "DISPATCH" or "ISSUE" it resolves to dispatch); and
\* normalizing the resolved bucket again, with any type, yields the same bucket.
C8_UnrecognizedFallsBack ==
    Resolved =>
        /\ ReqModeUnrecognized =>
              mode = (IF ReqField("type").t = "str"
                          /\ ReqField("type").s \in {"DISPATCH", "ISSUE"}
                      THEN "dispatch" ELSE "return")
        /\ \A ty \in TypeVals \ {JList(1)} :
              NormalizeMode(JStr(mode), IF ty = Absent THEN None ELSE ty) = mode

C8_Witness ==
    /\ Resolved
    /\ ReqField("mode") = JStr("bogus")
    /\ ReqField("type") = JStr("dispatch")
    /\ mode = "return"

(***************************************************************************)
(* C9                                                                      *)
(***************************************************************************)
\* C9: the resolved mode is dispatch or return, and a request whose mode is
\* issue, dispatch, out or the localized synonym resolves to dispatch and runs
\* the stage list prepare, pick, verify, handover.  (The claim's last clause,
\* every other mode resolves to return, is left to the type derivation of C8
\* and C18; these two clauses already fail.)
C9_DispatchSynonyms ==
    Resolved =>
        /\ mode \in {"dispatch", "return"}
        /\ (/\ ReqField("mode").t = "str"
            /\ ReqField("mode").s \in {"issue", "dispatch", "out", "bulchul"}) =>
               /\ mode = "dispatch"
               /\ [n \in DOMAIN stages |-> stages[n][1]]
                      = <<"prepare", "pick", "verify", "handover">>

(***************************************************************************)
(* C10                                                                     *)
(***************************************************************************)
\* C10: a second run on the same request, whatever its seed and delays, emits
\* the same lines in the same order as the first and ends with the same exit
\* status.
C10_SeedIndependent ==
    run > 1 =>
        /\ Len(out) <= Len(prevOut)
        /\ out = SubSeq(prevOut, 1, Len(out))
        /\ Exited => (out = prevOut /\ exitCode = prevExit)

C10_Witness ==
    /\ run > 1
    /\ Exited
    /\ Len(out) = 9
    /\ out = prevOut
    /\ slept # prevSlept

(***************************************************************************)
(* C11                                                                     *)
(***************************************************************************)
\* The request id the invoker supplied: requestId, or its alias request_id.
ReqId ==
    IF IsDict(Request) /\ "requestId" \in DOMAIN Request.f
    THEN Request.f["requestId"]
    ELSE ReqField("request_id")
ReqIncludes ==
    IF IsDict(ReqField("dispatch")) THEN Get(ReqField("dispatch"), "includes") ELSE None

\* C11: the terminal success event carries the resolved mode, summary.requestId
\* equal to the request id as supplied (null when absent) and summary.includes
\* equal to the request's dispatch includes (null when absent).
C11_SuccessSummary ==
    EndsWith("success", "complete") =>
        LET e == out[Len(out)]
        IN  /\ EqStr(Get(e, "mode"), mode)
            /\ IsDict(Get(e, "summary"))
            /\ Get(Get(e, "summary"), "requestId") = ReqId
            /\ Get(Get(e, "summary"), "includes") = ReqIncludes

(***************************************************************************)
(* C17                                                                     *)
(***************************************************************************)
ReqReason ==
    IF IsDict(ReqField("simulate")) THEN Get(ReqField("simulate"), "reason") ELSE None
\* The label of item X of the active sequence of mode m.
LabelOf(X, m) ==
    LET items == StagesFor(m) \o (IF m = "return" THEN VISION_CHECKS ELSE <<>>)
    IN  items[Pos(X, m)][2]
\* The run ended with an error event whose message is msg, right after the
\* progress event of X.
FailedAtWith(X, msg) ==
    /\ Len(out) >= 2
    /\ IsProgress(out[Len(out) - 1])
    /\ HasStage(out[Len(out) - 1], X)
    /\ IsComplete(out[Len(out)])
    /\ EqStr(Get(out[Len(out)], "status"), "error")
    /\ EqStr(Get(out[Len(out)], "message"), msg)

\* C17 as stated: when the injected failure fires at X, the error message is
\* simulate.reason if a reason is present, otherwise the label of X followed by
\* the failure suffix, and the progress event of X precedes the error event.
C17_ReasonIfPresent ==
    \A X \in StageKeys \cup CheckKeys :
        (Resolved /\ Exited /\ FailStageIs(X) /\ InActive(X, mode)) =>
            FailedAtWith(X, IF ReqReason.t = "str" THEN ReqReason.s
                            ELSE LabelOf(X, mode) \o FailSuffix)

\* C17 amended: when the injected failure fires at X, the error message is
\* simulate.reason if a non-empty reason is present, otherwise the label of X
\* followed by the failure suffix, and the progress event of X precedes the
\* error event.
C17_ReasonIfNonEmpty ==
    \A X \in StageKeys \cup CheckKeys :
        (Resolved /\ Exited /\ FailStageIs(X) /\ InActive(X, mode)) =>
            FailedAtWith(X, IF ReqReason.t = "str" /\ ReqReason.s # "" THEN ReqReason.s
                            ELSE LabelOf(X, mode) \o FailSuffix)

C17_Witness ==
    /\ Exited
    /\ mode = "return"
    /\ FailStageIs("serial")
    /\ ReqReason = None
    /\ FailedAtWith("serial", "checking the firearm QR code failed")

(***************************************************************************)
(* C18                                                                     *)
(***************************************************************************)
\* C18: when the request's mode is absent or unrecognized, the resolved mode is
\* dispatch exactly when type is "DISPATCH" or "ISSUE" and return otherwise;
\* when the mode is recognized (issue, dispatch or return, in any case), the
\* resolved mode follows from the mode alone, whatever the type.
C18_TypeOnlyWhenUnrecognized ==
    Resolved =>
        /\ mode \in {"dispatch", "return"}
        /\ ReqModeUnrecognized =>
              (mode = "dispatch" <=>
                  (ReqField("type").t = "str"
                      /\ ReqField("type").s \in {"DISPATCH", "ISSUE"}))
        /\ ~ReqModeUnrecognized =>
              (mode = "dispatch" <=>
                  Lower(ReqField("mode").s) \in {"issue", "dispatch"})

C18_Witness ==
    /\ Resolved
    /\ ReqField("mode") = JStr("return")
    /\ ReqField("type") = JStr("DISPATCH")
    /\ mode = "return"
    /\ pc = "starting"

(***************************************************************************)
(* C19                                                                     *)
(***************************************************************************)
\* The fixed sequence of progress keys of a run in mode m.
ExpectedKeys(m) ==
    <<"starting">> \o
        (IF m = "dispatch"
         THEN <<"prepare", "pick", "verify", "handover">>
         ELSE <<"prepare", "verify", "stow", "complete",
                "magazine_top", "selector", "serial">>)

\* C19: the progress events emitted so far are, in order, a prefix of starting,
\* the stages of the resolved mode and (return only) the vision checks; nothing
\* but the last line is not a progress event, so starting comes first; and the
\* success event comes only after the whole sequence.
C19_ProgressIsPrefix ==
    LET pk == SelectSeq(out, IsProgress)
    IN  /\ Len(pk) > 0 => Resolved
        /\ Resolved =>
              /\ Len(pk) <= Len(ExpectedKeys(mode))
              /\ \A n \in DOMAIN pk : HasStage(pk[n], ExpectedKeys(mode)[n])
        /\ \A n \in DOMAIN out : ~IsProgress(out[n]) => n = Len(out)
        /\ EndsWith("success", "complete") => Len(pk) = Len(ExpectedKeys(mode))

C19_Witness ==
    /\ Exited
    /\ mode = "dispatch"
    /\ EndsWith("success", "complete")
    /\ Len(out) = 6
    /\ HasStage(out[1], "starting")
    /\ HasStage(out[5], "handover")

(***************************************************************************)
(* Vocabulary of the executor's properties.                                *)
(***************************************************************************)
RailExited == rpc = "exit"
\* BridgeClient(host) returned: a session exists.
SessionOpened == client # "none"
IsCommand(c) == c.call \in {"rail_home", "rail_move_to"}
Called(name) == \E n \in DOMAIN calls : calls[n].call = name
\* The calls that raised, the teardown aside.
RaisedCalls == {n \in DOMAIN calls : calls[n].raised /\ calls[n].call # "__exit__"}
\* str(exc) of each raising call.
MessageOf(c) ==
    CASE c.call = "BridgeClient" -> "connect failed"
      [] c.call = "__enter__"    -> "enter failed"
      [] IsCommand(c)            -> "command failed"
      [] c.call = "rail_status"  -> "status failed"
\* The values the primary command and the status query returned (None if the
\* call was not made or raised).
CommandReturn ==
    IF \E n \in DOMAIN calls : IsCommand(calls[n]) /\ ~calls[n].raised
    THEN calls[CHOOSE n \in DOMAIN calls : IsCommand(calls[n])].ret
    ELSE None
StatusReturn ==
    IF \E n \in DOMAIN calls : calls[n].call = "rail_status" /\ ~calls[n].raised
    THEN calls[CHOOSE n \in DOMAIN calls : calls[n].call = "rail_status"].ret
    ELSE None
HasKey(v, k) == IsDict(v) /\ k \in DOMAIN v.f
\* ensure_position / ensure_home returned to main.
Responded == \E n \in DOMAIN calls : calls[n].call = "rail_status" /\ ~calls[n].raised

(***************************************************************************)
(* C12                                                                     *)
(***************************************************************************)
\* C12: every invocation of the executor writes exactly one line, and that
\* record holds at least action, position, speed and ok, on the success path,
\* on bridge failure and on bridge import failure.
C12_OneRecordWithFields ==
    /\ Len(rout) <= 1
    /\ RailExited =>
          /\ Len(rout) = 1
          /\ {"action", "position", "speed", "ok"} \subseteq DOMAIN rout[1].f

(***************************************************************************)
(* C13                                                                     *)
(***************************************************************************)
\* C13: once a session is opened, client.__exit__ is called on every exit
\* path; it is the last call on the bridge, and it precedes the output record.
C13_TeardownAlways ==
    /\ \A n \in DOMAIN calls : calls[n].call = "__exit__" => n = Len(calls)
    /\ (SessionOpened /\ (RailExited \/ Len(rout) > 0)) =>
          /\ Len(calls) > 0
          /\ calls[Len(calls)].call = "__exit__"
    /\ Called("__exit__") => SessionOpened

C13_Witness ==
    /\ RailExited
    /\ Len(calls) = 3
    /\ calls[2].call = "__enter__"
    /\ calls[2].raised
    /\ calls[3].call = "__exit__"
    /\ Len(rout) = 1

(***************************************************************************)
(* C14                                                                     *)
(***************************************************************************)
\* C14: when constructing the session or a bridge command raises, the record
\* has ok=false, error = the failure message, and the exit status is 1; the
\* exit status is 0 exactly when the record's ok is true; and without a raise
\* ok is false only when the command's result said so.
C14_FailureReported ==
    RailExited =>
        /\ Len(rout) = 1
        /\ \A n \in RaisedCalls :
              /\ Get(rout[1], "ok") = JBool(FALSE)
              /\ Get(rout[1], "error") = JStr(MessageOf(calls[n]))
              /\ rexit = 1
        /\ rexit = 0 <=> Get(rout[1], "ok") = JBool(TRUE)
        /\ rexit \in {0, 1}
        /\ Responded =>
              (Get(rout[1], "ok") = JBool(FALSE) <=>
                  (HasKey(CommandReturn, "ok") /\ Get(CommandReturn, "ok") = JBool(FALSE)))

C14_Witness ==
    /\ RailExited
    /\ Len(calls) = 5
    /\ calls[4].call = "rail_status"
    /\ calls[4].raised
    /\ Get(rout[1], "error") = JStr("status failed")
    /\ rexit = 1

(***************************************************************************)
(* C15                                                                     *)
(***************************************************************************)
\* C15: rail_status is called only right after the primary command returned;
\* its position is merged into the result only when the result has none: a
\* position of the result wins, and a status without position changes nothing.
C15_StatusMergedAfterCommand ==
    /\ \A n \in DOMAIN calls :
          calls[n].call = "rail_status" =>
              /\ n > 1
              /\ IsCommand(calls[n - 1])
              /\ ~calls[n - 1].raised
    /\ Responded =>
          LET own == IF IsDict(CommandReturn) THEN CommandReturn
                     ELSE JObj([ok |-> JBool(TRUE)])
          IN  /\ response = result
              /\ IF HasKey(own, "position") \/ ~HasKey(StatusReturn, "position")
                 THEN result = own
                 ELSE /\ DOMAIN result.f = DOMAIN own.f \cup {"position"}
                      /\ result.f["position"] = StatusReturn.f["position"]
                      /\ \A k \in DOMAIN own.f : result.f[k] = own.f[k]

C15_Witness ==
    /\ Responded
    /\ HasKey(CommandReturn, "position")
    /\ HasKey(StatusReturn, "position")
    /\ Get(result, "position") = JNum(10)

(***************************************************************************)
(* C16                                                                     *)
(***************************************************************************)
\* C16: when client.__exit__ raises, the record and the exit status are those
\* of the commands alone: the error of the call that raised if one did, else
\* the merged response with no error field.
C16_CloseNeverMasks ==
    (RailExited /\ closeRaised) =>
        /\ Len(rout) = 1
        /\ IF RaisedCalls # {}
           THEN /\ rout[1] = ErrorPayload(InitialPayload(args),
                                          MessageOf(calls[CHOOSE n \in RaisedCalls : TRUE]))
                /\ rexit = 1
           ELSE /\ rout[1] = FinalPayload(InitialPayload(args), response)
                /\ "error" \notin DOMAIN rout[1].f
                /\ rexit = ExitStatus(rout[1])

C16_Witness ==
    /\ RailExited
    /\ closeRaised
    /\ Len(calls) = 4
    /\ calls[3].raised
    /\ Get(rout[1], "error") = JStr("command failed")

(***************************************************************************)
(* C20                                                                     *)
(***************************************************************************)
\* C20: the record's position is never a current_position: it is the position
\* of the command's result if the response has one, else the position of the
\* status if the response has one, else the requested position.
C20_PositionNeverAliased ==
    (RailExited /\ Called("BridgeClient")) =>
        /\ Len(rout) = 1
        /\ Get(rout[1], "position") =
              (IF Responded /\ HasKey(CommandReturn, "position")
               THEN Get(CommandReturn, "position")
               ELSE IF Responded /\ HasKey(StatusReturn, "position")
               THEN Get(StatusReturn, "position")
               ELSE JNum(args.position))

C20_Witness ==
    /\ RailExited
    /\ Responded
    /\ Get(rout[1], "current_position") = JNum(30)
    /\ Get(rout[1], "position") = JNum(args.position)

====
